---- MODULE Spec2Model ----
\* A model of the OVH DNS-01 challenge solver (main.go): the two lifecycle
\* operations Present and CleanUp, split at the remote calls they issue against
\* the zone API, together with the pure helpers they use.
EXTENDS Integers, Sequences, FiniteSets, TLC

\* ---------------------------------------------------------------- bounds

\* Total number of Present/CleanUp invocations in one behaviour.
MaxInvocations == 3
\* Longest fully-qualified name and longest zone name drawn for getSubDomain.
MaxFqdnLen == 5
MaxZoneLen == 3

\* ---------------------------------------------------------------- strings
\* A Go string is modelled as a sequence of one-character strings.

Chars == {"a", "b", "."}

RECURSIVE StringsUpTo(_)
StringsUpTo(n) ==
  IF n = 0 THEN {<<>>}
  ELSE LET shorter == StringsUpTo(n - 1)
       IN  shorter \cup {Append(s, c) : s \in {t \in shorter : Len(t) = n - 1}, c \in Chars}

Min(S) == CHOOSE m \in S : \A n \in S : m <= n

\* util.UnFqdn: drop one trailing root terminator, if any.
UnFqdn(name) ==
  IF Len(name) # 0 /\ name[Len(name)] = "."
  THEN SubSeq(name, 1, Len(name) - 1)
  ELSE name

\* strings.Index: the 0-based position of the first occurrence, or -1.
Index(s, substr) ==
  LET at == {i \in 0..(Len(s) - Len(substr)) :
               SubSeq(s, i + 1, i + Len(substr)) = substr}
  IN  IF at = {} THEN -1 ELSE Min(at)

getSubDomain(domain, fqdn) ==
  LET idx == Index(fqdn, <<".">> \o domain)
  IN  IF idx # -1 THEN SubSeq(fqdn, 1, idx) ELSE UnFqdn(fqdn)

\* ---------------------------------------------------------------- errors

NoErr == "nil"

\* ---------------------------------------------------------------- client construction

\* ch.Config: absent (nil), bytes that are not JSON, or a JSON object holding
\* some of the fields.
NilJSON == [kind |-> "nil", obj |-> <<>>]
BadJSON == [kind |-> "bad", obj |-> <<>>]
ObjJSON(o) == [kind |-> "obj", obj |-> o]

\* loadConfig: fields absent from the object keep their zero value.
loadConfig(cfgJSON) ==
  LET field(f) == IF cfgJSON.kind = "obj" /\ f \in DOMAIN cfgJSON.obj
                  THEN cfgJSON.obj[f] ELSE ""
      cfg == [Endpoint |-> field("endpoint"),
              ApplicationKey |-> field("applicationKey"),
              ApplicationSecretRef |-> [Name |-> field("secretName"), Key |-> field("secretKey")],
              ConsumerKey |-> field("consumerKey")]
  IN  IF cfgJSON.kind = "bad"
      THEN [cfg |-> cfg, err |-> "error decoding OVH config"]
      ELSE [cfg |-> cfg, err |-> NoErr]

\* validate that requires the four fields even with ambient credentials.
validateAlways(cfg, allowAmbientCredentials) ==
  IF cfg.Endpoint = "" THEN "no endpoint provided in OVH config"
  ELSE IF cfg.ApplicationKey = "" THEN "no application key provided in OVH config"
  ELSE IF cfg.ApplicationSecretRef.Name = "" THEN "no application secret provided in OVH config"
  ELSE IF cfg.ConsumerKey = "" THEN "no consumer key provided in OVH config"
  ELSE NoErr

\* validate that looks at the consumer key before the application key.
validateReordered(cfg, allowAmbientCredentials) ==
  IF allowAmbientCredentials THEN NoErr
  ELSE IF cfg.Endpoint = "" THEN "no endpoint provided in OVH config"
  ELSE IF cfg.ConsumerKey = "" THEN "no consumer key provided in OVH config"
  ELSE IF cfg.ApplicationKey = "" THEN "no application key provided in OVH config"
  ELSE IF cfg.ApplicationSecretRef.Name = "" THEN "no application secret provided in OVH config"
  ELSE NoErr

validate(cfg, allowAmbientCredentials) ==
  IF allowAmbientCredentials THEN NoErr
  ELSE IF cfg.Endpoint = "" THEN "no endpoint provided in OVH config"
  ELSE IF cfg.ApplicationKey = "" THEN "no application key provided in OVH config"
  ELSE IF cfg.ApplicationSecretRef.Name = "" THEN "no application secret provided in OVH config"
  ELSE IF cfg.ConsumerKey = "" THEN "no consumer key provided in OVH config"
  ELSE NoErr

\* The secrets the cluster's credential store holds: one secret with one
\* field. Whether a read of the store answers is the caller's getReply.
SecretStore ==
  {[namespace |-> "ns", name |-> "ovh-credentials",
    data |-> [k \in {"applicationSecret"} |-> "s3cr3t"]]}

\* The error of a Secrets(namespace).Get that did not answer (API server
\* unreachable, access forbidden), returned as it is.
StoreReadFailed == "credential store read failed"

\* fmt.Errorf("key not found %q in secret '%s/%s'", ref.Key, namespace, ref.Name)
KeyNotFound(key, namespace, name) ==
  "key not found \"" \o key \o "\" in secret '" \o namespace \o "/" \o name \o "'"

\* secret that takes the field from the secret without testing its presence.
secretUncheckedKey(ref, namespace, getReply) ==
  IF ref.Name = "" THEN [value |-> "", err |-> NoErr, read |-> FALSE]
  ELSE IF getReply # "ok" THEN [value |-> "", err |-> StoreReadFailed, read |-> TRUE]
  ELSE LET found == {s \in SecretStore : s.namespace = namespace /\ s.name = ref.Name}
       IN  IF found = {}
           THEN [value |-> "", err |-> "secret not found", read |-> TRUE]
           ELSE LET s == CHOOSE s \in found : TRUE
                IN  IF ref.Key \notin DOMAIN s.data
                    THEN [value |-> "", err |-> NoErr, read |-> TRUE]
                    ELSE [value |-> s.data[ref.Key], err |-> NoErr, read |-> TRUE]

\* secret: value, error, and whether the credential store was read. getReply
\* is what the store's Get answers apart from what it holds: any error of the
\* Get is returned as it is, the not-found error among them.
secret(ref, namespace, getReply) ==
  IF ref.Name = "" THEN [value |-> "", err |-> NoErr, read |-> FALSE]
  ELSE IF getReply # "ok" THEN [value |-> "", err |-> StoreReadFailed, read |-> TRUE]
  ELSE LET found == {s \in SecretStore : s.namespace = namespace /\ s.name = ref.Name}
       IN  IF found = {}
           THEN [value |-> "", err |-> "secret not found", read |-> TRUE]
           ELSE LET s == CHOOSE s \in found : TRUE
                IN  IF ref.Key \notin DOMAIN s.data
                    THEN [value |-> "", err |-> KeyNotFound(ref.Key, namespace, ref.Name),
                          read |-> TRUE]
                    ELSE [value |-> s.data[ref.Key], err |-> NoErr, read |-> TRUE]

\* No client: what ovhClient returns beside an error.
NoClient == [endpoint |-> "", applicationKey |-> "", applicationSecret |-> "",
             consumerKey |-> "", built |-> FALSE]

\* ovhClient that resolves the secret before it validates the configuration.
ovhClientSecretFirst(ch, getReply, newClientOk) ==
  LET loaded == loadConfig(ch.Config)
      verr   == validate(loaded.cfg, ch.AllowAmbientCredentials)
      sec    == secret(loaded.cfg.ApplicationSecretRef, ch.ResourceNamespace, getReply)
      client == [endpoint |-> loaded.cfg.Endpoint,
                 applicationKey |-> loaded.cfg.ApplicationKey,
                 applicationSecret |-> sec.value,
                 consumerKey |-> loaded.cfg.ConsumerKey, built |-> TRUE]
      fail(stage, err, read) == [err |-> err, client |-> NoClient, stage |-> stage, read |-> read]
  IN  IF loaded.err # NoErr THEN fail("loadConfig", loaded.err, FALSE)
      ELSE IF sec.err # NoErr THEN fail("secret", sec.err, sec.read)
      ELSE IF verr # NoErr THEN fail("validate", verr, sec.read)
      ELSE IF ~newClientOk THEN fail("ovh.NewClient", "ovh.NewClient failed", sec.read)
      ELSE [err |-> NoErr, client |-> client, stage |-> "built", read |-> sec.read]

\* ovhClient: decode, validate, resolve the secret, construct. getReply is the
\* answer of the credential store's Get; newClientOk is the outcome of
\* ovh.NewClient, which depends on the process environment.
\* The result holds the error, the client (the four arguments it was built
\* from), the step that failed and whether the credential store was read.
ovhClient(ch, getReply, newClientOk) ==
  LET loaded == loadConfig(ch.Config)
      verr   == validate(loaded.cfg, ch.AllowAmbientCredentials)
      sec    == secret(loaded.cfg.ApplicationSecretRef, ch.ResourceNamespace, getReply)
      client == [endpoint |-> loaded.cfg.Endpoint,
                 applicationKey |-> loaded.cfg.ApplicationKey,
                 applicationSecret |-> sec.value,
                 consumerKey |-> loaded.cfg.ConsumerKey, built |-> TRUE]
      fail(stage, err, read) == [err |-> err, client |-> NoClient, stage |-> stage, read |-> read]
  IN  IF loaded.err # NoErr THEN fail("loadConfig", loaded.err, FALSE)
      ELSE IF verr # NoErr THEN fail("validate", verr, FALSE)
      ELSE IF sec.err # NoErr THEN fail("secret", sec.err, sec.read)
      ELSE IF ~newClientOk THEN fail("ovh.NewClient", "ovh.NewClient failed", sec.read)
      ELSE [err |-> NoErr, client |-> client, stage |-> "built", read |-> sec.read]

\* ---------------------------------------------------------------- the zone

Procs == {"p1", "p2"}
Keys  == {"A", "B"}

\* The challenge requests the controller sends: concurrent challenges for one
\* name (two keys), with configurations that pass or fail client construction.
ResolvedZone == <<"z", ".">>
Fqdns == {<<"x", ".", "z", ".">>}

FullConfig ==
  [endpoint |-> "ovh-eu", applicationKey |-> "ak", secretName |-> "ovh-credentials",
   secretKey |-> "applicationSecret", consumerKey |-> "ck"]

Configs ==
  { [Config |-> ObjJSON(FullConfig), AllowAmbientCredentials |-> FALSE],
    [Config |-> NilJSON, AllowAmbientCredentials |-> FALSE],
    [Config |-> ObjJSON([FullConfig EXCEPT !.secretName = "absent"]), AllowAmbientCredentials |-> FALSE] }

ChallengeRequests ==
  { [ResolvedFQDN |-> f, ResolvedZone |-> ResolvedZone, Key |-> k,
     ResourceNamespace |-> "ns", Config |-> c.Config,
     AllowAmbientCredentials |-> c.AllowAmbientCredentials]
    : f \in Fqdns, k \in Keys, c \in Configs }

SubDomains == {getSubDomain(UnFqdn(ResolvedZone), f) : f \in Fqdns}

\* ovhZoneRecord as the provider stores it.
ZoneRecord(id, fieldType, subDomain, target, ttl) ==
  [id |-> id, fieldType |-> fieldType, subDomain |-> subDomain, target |-> target, ttl |-> ttl]

\* Zones the provider may hold before the first invocation: empty, or holding
\* challenge records left at the name (a duplicate among them), a record of
\* another type at the same label and a TXT record at another label.
InitialZones ==
  { {},
    { ZoneRecord(1, "TXT", <<"x">>, "A", 60),
      ZoneRecord(2, "TXT", <<"x">>, "A", 60),
      ZoneRecord(3, "CNAME", <<"x">>, "A", 3600),
      ZoneRecord(4, "TXT", <<"y">>, "A", 60) } }

MaxId(rs) == IF rs = {} THEN 0 ELSE CHOOSE m \in {r.id : r \in rs} : \A r \in rs : r.id <= m

RECURSIVE Perms(_)
Perms(S) ==
  IF S = {} THEN {<<>>}
  ELSE UNION {{<<x>> \o t : t \in Perms(S \ {x})} : x \in S}

VARIABLES
  records,     \* the zone's records at the provider
  nextId,      \* the identifier the provider assigns next
  isDeployed,  \* the zone status the provider reports
  pending,     \* TRUE while an edit has not been followed by a refresh
  inv,         \* per caller: the invocation it is running or last ran
  ninv,        \* invocations started so far
  gone,        \* records deleted so far
  presented,   \* per (subdomain, key): Present invocations that returned nil
  faulty,      \* TRUE while remote calls may fail in transport
  sdZone, sdFqdn, sdOut   \* getSubDomain's inputs and result

vars == <<records, nextId, isDeployed, pending, inv, ninv, gone, presented,
          faulty, sdZone, sdFqdn, sdOut>>

\* What a remote call may answer, apart from what the zone holds.
Replies == IF faulty THEN {"ok", "error"} ELSE {"ok"}

zoneVars == <<records, nextId, isDeployed, pending, gone>>
auxVars == <<faulty, sdZone, sdFqdn, sdOut>>

NoRequest ==
  [ResolvedFQDN |-> <<>>, ResolvedZone |-> <<>>, Key |-> "", ResourceNamespace |-> "",
   Config |-> NilJSON, AllowAmbientCredentials |-> FALSE]

Idle ==
  [op |-> "none", pc |-> "idle", ch |-> NoRequest, client |-> FALSE, api |-> NoClient,
   domain |-> <<>>,
   subDomain |-> <<>>, target |-> "", listed |-> <<>>, ids |-> <<>>, err |-> NoErr,
   log |-> <<>>, del |-> {}, created |-> 0, peers |-> {}, partial |-> FALSE]

Call(call, id, res) == [call |-> call, id |-> id, res |-> res]

Active(q) == inv[q].pc \notin {"idle", "done"}

Init ==
  /\ records \in InitialZones
  /\ nextId = MaxId(records) + 1
  /\ isDeployed \in BOOLEAN
  /\ pending = FALSE
  /\ inv = [p \in Procs |-> Idle]
  /\ ninv = 0
  /\ gone = {}
  /\ presented = [sk \in SubDomains \X Keys |-> 0]
  /\ faulty = TRUE
  /\ sdZone = <<>> /\ sdFqdn = <<>> /\ sdOut = <<"unset">>

\* ---------------------------------------------------------------- control flow

\* The error a failed step returns.
ErrOf(call, res) ==
  IF res = "ok" THEN NoErr
  ELSE IF res = "notDeployed" THEN "OVH zone not deployed"
  ELSE "OVH API call failed: " \o call

\* addTXTRecord that goes on to the refresh although the create failed.
addTXTRecordKeepGoing(step, res) ==
  IF step = "validateZone" THEN (IF res # "ok" THEN "done" ELSE "createRecord")
  ELSE IF step = "createRecord" THEN "refreshRecords"
  ELSE "done"

\* addTXTRecord: the step that follows `step` once it ended with `res`.
addTXTRecord(step, res) ==
  IF res # "ok" THEN "done"
  ELSE IF step = "validateZone" THEN "createRecord"
  ELSE IF step = "createRecord" THEN "refreshRecords"
  ELSE "done"

\* removeTXTRecord that returns without a refresh when the list is empty.
removeTXTRecordEmptyNoRefresh(step, res, ids, recordTarget, target) ==
  LET loop(rest) == [pc |-> IF rest = <<>> THEN "refreshRecords" ELSE "getRecord",
                     ids |-> rest]
  IN  IF res # "ok" THEN [pc |-> "done", ids |-> ids]
      ELSE IF step = "listRecords"
           THEN IF ids = <<>> THEN [pc |-> "done", ids |-> ids] ELSE loop(ids)
      ELSE IF step = "getRecord"
           THEN IF recordTarget # target THEN loop(Tail(ids))
                ELSE [pc |-> "deleteRecord", ids |-> ids]
      ELSE IF step = "deleteRecord" THEN loop(Tail(ids))
      ELSE [pc |-> "done", ids |-> ids]

\* removeTXTRecord that fetches the list again after each deletion.
removeTXTRecordRelist(step, res, ids, recordTarget, target) ==
  LET loop(rest) == [pc |-> IF rest = <<>> THEN "refreshRecords" ELSE "getRecord",
                     ids |-> rest]
  IN  IF res # "ok" THEN [pc |-> "done", ids |-> ids]
      ELSE IF step = "listRecords" THEN loop(ids)
      ELSE IF step = "getRecord"
           THEN IF recordTarget # target THEN loop(Tail(ids))
                ELSE [pc |-> "deleteRecord", ids |-> ids]
      ELSE IF step = "deleteRecord" THEN [pc |-> "listRecords", ids |-> <<>>]
      ELSE [pc |-> "done", ids |-> ids]

\* removeTXTRecord that stays on a record whose target is not the key.
removeTXTRecordNoAdvance(step, res, ids, recordTarget, target) ==
  LET loop(rest) == [pc |-> IF rest = <<>> THEN "refreshRecords" ELSE "getRecord",
                     ids |-> rest]
  IN  IF res # "ok" THEN [pc |-> "done", ids |-> ids]
      ELSE IF step = "listRecords" THEN loop(ids)
      ELSE IF step = "getRecord"
           THEN IF recordTarget # target THEN loop(ids)
                ELSE [pc |-> "deleteRecord", ids |-> ids]
      ELSE IF step = "deleteRecord" THEN loop(Tail(ids))
      ELSE [pc |-> "done", ids |-> ids]

\* removeTXTRecord without the comparison of the record's target with the key.
removeTXTRecordAnyTarget(step, res, ids, recordTarget, target) ==
  LET loop(rest) == [pc |-> IF rest = <<>> THEN "refreshRecords" ELSE "getRecord",
                     ids |-> rest]
  IN  IF res # "ok" THEN [pc |-> "done", ids |-> ids]
      ELSE IF step = "listRecords" THEN loop(ids)
      ELSE IF step = "getRecord" THEN [pc |-> "deleteRecord", ids |-> ids]
      ELSE IF step = "deleteRecord" THEN loop(Tail(ids))
      ELSE [pc |-> "done", ids |-> ids]

\* removeTXTRecord that leaves the loop after its first deletion.
removeTXTRecordFirstOnly(step, res, ids, recordTarget, target) ==
  LET loop(rest) == [pc |-> IF rest = <<>> THEN "refreshRecords" ELSE "getRecord",
                     ids |-> rest]
  IN  IF res # "ok" THEN [pc |-> "done", ids |-> ids]
      ELSE IF step = "listRecords" THEN loop(ids)
      ELSE IF step = "getRecord"
           THEN IF recordTarget # target THEN loop(Tail(ids))
                ELSE [pc |-> "deleteRecord", ids |-> ids]
      ELSE IF step = "deleteRecord" THEN loop(<<>>)
      ELSE [pc |-> "done", ids |-> ids]

\* removeTXTRecord that skips a record whose GET failed instead of returning.
removeTXTRecordSkipFailed(step, res, ids, recordTarget, target) ==
  LET loop(rest) == [pc |-> IF rest = <<>> THEN "refreshRecords" ELSE "getRecord",
                     ids |-> rest]
  IN  IF step = "getRecord" /\ res # "ok" THEN loop(Tail(ids))
      ELSE IF res # "ok" THEN [pc |-> "done", ids |-> ids]
      ELSE IF step = "listRecords" THEN loop(ids)
      ELSE IF step = "getRecord"
           THEN IF recordTarget # target THEN loop(Tail(ids))
                ELSE [pc |-> "deleteRecord", ids |-> ids]
      ELSE IF step = "deleteRecord" THEN loop(Tail(ids))
      ELSE [pc |-> "done", ids |-> ids]

\* removeTXTRecord that returns after the loop without the refresh.
removeTXTRecordNoRefresh(step, res, ids, recordTarget, target) ==
  LET loop(rest) == [pc |-> IF rest = <<>> THEN "done" ELSE "getRecord",
                     ids |-> rest]
  IN  IF res # "ok" THEN [pc |-> "done", ids |-> ids]
      ELSE IF step = "listRecords" THEN loop(ids)
      ELSE IF step = "getRecord"
           THEN IF recordTarget # target THEN loop(Tail(ids))
                ELSE [pc |-> "deleteRecord", ids |-> ids]
      ELSE IF step = "deleteRecord" THEN loop(Tail(ids))
      ELSE [pc |-> "done", ids |-> ids]

\* removeTXTRecord: the step that follows `step` once it ended with `res`, and
\* the identifiers still to visit. `ids` is the list from the current one on;
\* `recordTarget` is the target of the record a GET returned.
removeTXTRecord(step, res, ids, recordTarget, target) ==
  LET loop(rest) == [pc |-> IF rest = <<>> THEN "refreshRecords" ELSE "getRecord",
                     ids |-> rest]
  IN  IF res # "ok" THEN [pc |-> "done", ids |-> ids]
      ELSE IF step = "listRecords" THEN loop(ids)
      ELSE IF step = "getRecord"
           THEN IF recordTarget # target THEN loop(Tail(ids))
                ELSE [pc |-> "deleteRecord", ids |-> ids]
      ELSE IF step = "deleteRecord" THEN loop(Tail(ids))
      ELSE [pc |-> "done", ids |-> ids]

\* ---------------------------------------------------------------- operations

\* The entry of Present or CleanUp for request ch: build the client, compute
\* domain, subdomain and target. Invocations that overlap learn of each
\* other's key. `partial` records that this is a retry of a CleanUp that had
\* deleted records before it aborted.
Invoke(p, op, first, ch, partial) ==
  \E getReply \in Replies, newClientOk \in {r = "ok" : r \in Replies} :
    LET c         == ovhClient(ch, getReply, newClientOk)
        domain    == UnFqdn(ch.ResolvedZone)
        subDomain == getSubDomain(domain, ch.ResolvedFQDN)
        log       == IF c.read
                     THEN <<Call("secret", 0, IF c.stage = "secret" THEN "error" ELSE "ok")>>
                     ELSE <<>>
        mine      == IF c.err # NoErr
                     THEN [Idle EXCEPT !.op = op, !.pc = "done", !.ch = ch, !.err = c.err,
                                       !.log = log, !.partial = partial]
                     ELSE [Idle EXCEPT !.op = op, !.pc = first, !.ch = ch, !.client = TRUE,
                                       !.api = c.client,
                                       !.domain = domain, !.subDomain = subDomain,
                                       !.target = ch.Key, !.log = log, !.partial = partial,
                                       !.peers = {inv[q].target : q \in {r \in Procs \ {p} : Active(r)}}]
    IN  inv' = [q \in Procs |->
                  IF q = p THEN mine
                  ELSE IF c.err = NoErr /\ inv[q].pc # "idle"
                       THEN [inv[q] EXCEPT !.peers = @ \cup {ch.Key}]
                       ELSE inv[q]]

\* Present that creates the record without validating the zone first.
PresentUnvalidated(p) ==
  /\ inv[p].pc \in {"idle", "done"}
  /\ ninv < MaxInvocations
  /\ ninv' = ninv + 1
  /\ \E ch \in ChallengeRequests : Invoke(p, "Present", "createRecord", ch, FALSE)
  /\ UNCHANGED <<zoneVars, presented, auxVars>>

Present(p) ==
  /\ inv[p].pc \in {"idle", "done"}
  /\ ninv < MaxInvocations
  /\ ninv' = ninv + 1
  /\ \E ch \in ChallengeRequests : Invoke(p, "Present", "validateZone", ch, FALSE)
  /\ UNCHANGED <<zoneVars, presented, auxVars>>

CleanUp(p) ==
  /\ inv[p].pc \in {"idle", "done"}
  /\ ninv < MaxInvocations
  /\ ninv' = ninv + 1
  /\ \E ch \in ChallengeRequests : Invoke(p, "CleanUp", "listRecords", ch, FALSE)
  /\ UNCHANGED <<zoneVars, presented, auxVars>>

\* The controller re-invokes a CleanUp that returned an error, with the same
\* request.
RetryCleanUp(p) ==
  /\ inv[p].op = "CleanUp" /\ inv[p].pc = "done" /\ inv[p].err # NoErr
  /\ Invoke(p, "CleanUp", "listRecords", inv[p].ch, inv[p].partial \/ inv[p].del # {})
  /\ UNCHANGED <<zoneVars, ninv, presented, auxVars>>

\* validateZone that does not look at isDeployed.
validateZoneUnchecked(p) ==
  /\ inv[p].pc = "validateZone"
  /\ \E res \in Replies :
       inv' = [inv EXCEPT ![p].log = Append(@, Call("status", 0,
                                       IF res = "ok" /\ ~isDeployed THEN "notDeployed" ELSE res)),
                          ![p].err = ErrOf("GET status", res),
                          ![p].pc = addTXTRecord("validateZone", res)]
  /\ UNCHANGED <<zoneVars, ninv, presented, auxVars>>

\* GET /domain/zone/{domain}/status
validateZone(p) ==
  /\ inv[p].pc = "validateZone"
  /\ \E reply \in Replies :
       LET res == IF reply = "error" THEN "error"
                  ELSE IF ~isDeployed THEN "notDeployed" ELSE "ok"
       IN  inv' = [inv EXCEPT ![p].log = Append(@, Call("status", 0, res)),
                              ![p].err = ErrOf("GET status", res),
                              ![p].pc = addTXTRecord("validateZone", res)]
  /\ UNCHANGED <<zoneVars, ninv, presented, auxVars>>

\* createRecord that posts nothing when the zone already holds the record.
createRecordDedup(p) ==
  /\ inv[p].pc = "createRecord"
  /\ \E res \in Replies :
       LET dup  == \E r \in records : /\ r.fieldType = "TXT"
                                      /\ r.subDomain = inv[p].subDomain
                                      /\ r.target = inv[p].target
           post == res = "ok" /\ ~dup
       IN  /\ inv' = [inv EXCEPT ![p].log = IF dup THEN @
                                            ELSE Append(@, Call("create", IF post THEN nextId ELSE 0, res)),
                                 ![p].err = IF dup THEN NoErr ELSE ErrOf("POST record", res),
                                 ![p].created = IF post THEN nextId ELSE 0,
                                 ![p].pc = IF dup THEN "refreshRecords"
                                           ELSE addTXTRecord("createRecord", res)]
           /\ IF post
              THEN /\ records' = records \cup
                         {ZoneRecord(nextId, "TXT", inv[p].subDomain, inv[p].target, 60)}
                   /\ nextId' = nextId + 1
                   /\ pending' = TRUE
              ELSE UNCHANGED <<records, nextId, pending>>
  /\ UNCHANGED <<isDeployed, gone, ninv, presented, auxVars>>

\* POST /domain/zone/{domain}/record
createRecord(p) ==
  /\ inv[p].pc = "createRecord"
  /\ \E res \in Replies :
       /\ inv' = [inv EXCEPT ![p].log = Append(@, Call("create", IF res = "ok" THEN nextId ELSE 0, res)),
                             ![p].err = ErrOf("POST record", res),
                             ![p].created = IF res = "ok" THEN nextId ELSE 0,
                             ![p].pc = addTXTRecord("createRecord", res)]
       /\ IF res = "ok"
          THEN /\ records' = records \cup
                     {ZoneRecord(nextId, "TXT", inv[p].subDomain, inv[p].target, 60)}
               /\ nextId' = nextId + 1
               /\ pending' = TRUE
          ELSE UNCHANGED <<records, nextId, pending>>
  /\ UNCHANGED <<isDeployed, gone, ninv, presented, auxVars>>

\* refreshRecords whose error is dropped.
refreshRecordsSwallowed(p) ==
  /\ inv[p].pc = "refreshRecords"
  /\ \E res \in Replies :
       /\ inv' = [inv EXCEPT ![p].log = Append(@, Call("refresh", 0, res)),
                             ![p].err = NoErr,
                             ![p].pc = "done"]
       /\ pending' = IF res = "ok" THEN FALSE ELSE pending
       /\ presented' = IF res = "ok" /\ inv[p].op = "Present"
                       THEN [presented EXCEPT ![<<inv[p].subDomain, inv[p].target>>] = @ + 1]
                       ELSE presented
  /\ UNCHANGED <<records, nextId, isDeployed, gone, ninv, auxVars>>

\* POST /domain/zone/{domain}/refresh, the last step of both operations.
refreshRecords(p) ==
  /\ inv[p].pc = "refreshRecords"
  /\ \E res \in Replies :
       /\ inv' = [inv EXCEPT ![p].log = Append(@, Call("refresh", 0, res)),
                             ![p].err = ErrOf("POST refresh", res),
                             ![p].pc = "done"]
       /\ pending' = IF res = "ok" THEN FALSE ELSE pending
       /\ presented' = IF res = "ok" /\ inv[p].op = "Present"
                       THEN [presented EXCEPT ![<<inv[p].subDomain, inv[p].target>>] = @ + 1]
                       ELSE presented
  /\ UNCHANGED <<records, nextId, isDeployed, gone, ninv, auxVars>>

\* listRecords whose query lacks the fieldType parameter.
listRecordsAnyType(p) ==
  /\ inv[p].pc = "listRecords"
  /\ \E res \in Replies :
       \E ids \in IF res = "ok"
                  THEN Perms({r.id : r \in {x \in records : x.subDomain = inv[p].subDomain}})
                  ELSE {<<>>} :
         LET nxt == removeTXTRecord("listRecords", res, ids, "", inv[p].target)
         IN  inv' = [inv EXCEPT ![p].log = Append(@, Call("list", 0, res)),
                                ![p].err = ErrOf("GET record list", res),
                                ![p].listed = ids,
                                ![p].ids = nxt.ids,
                                ![p].pc = nxt.pc]
  /\ UNCHANGED <<zoneVars, ninv, presented, auxVars>>

\* GET /domain/zone/{domain}/record?fieldType=TXT&subDomain={sub}: the
\* identifiers of the matching records, in an order the provider chooses.
listRecords(p) ==
  /\ inv[p].pc = "listRecords"
  /\ \E res \in Replies :
       \E ids \in IF res = "ok"
                  THEN Perms({r.id : r \in {x \in records : x.fieldType = "TXT"
                                                     /\ x.subDomain = inv[p].subDomain}})
                  ELSE {<<>>} :
         LET nxt == removeTXTRecord("listRecords", res, ids, "", inv[p].target)
         IN  inv' = [inv EXCEPT ![p].log = Append(@, Call("list", 0, res)),
                                ![p].err = ErrOf("GET record list", res),
                                ![p].listed = ids,
                                ![p].ids = nxt.ids,
                                ![p].pc = nxt.pc]
  /\ UNCHANGED <<zoneVars, ninv, presented, auxVars>>

\* GET /domain/zone/{domain}/record/{id} for the current identifier: fails
\* when the transport fails or the record no longer exists.
getRecord(p) ==
  /\ inv[p].pc = "getRecord"
  /\ \E reply \in Replies :
       LET id    == Head(inv[p].ids)
           found == {r \in records : r.id = id}
           res   == IF reply = "error" THEN "error"
                    ELSE IF found = {} THEN "notFound" ELSE "ok"
           tgt   == IF res = "ok" THEN (CHOOSE r \in found : TRUE).target ELSE ""
           nxt   == removeTXTRecord("getRecord", res, inv[p].ids, tgt, inv[p].target)
       IN  inv' = [inv EXCEPT ![p].log = Append(@, Call("get", id, res)),
                              ![p].err = ErrOf("GET record", res),
                              ![p].ids = nxt.ids,
                              ![p].pc = nxt.pc]
  /\ UNCHANGED <<zoneVars, ninv, presented, auxVars>>

\* DELETE /domain/zone/{domain}/record/{id} for the current identifier.
deleteRecord(p) ==
  /\ inv[p].pc = "deleteRecord"
  /\ \E reply \in Replies :
       LET id    == Head(inv[p].ids)
           found == {r \in records : r.id = id}
           res   == IF reply = "error" THEN "error"
                    ELSE IF found = {} THEN "notFound" ELSE "ok"
           nxt   == removeTXTRecord("deleteRecord", res, inv[p].ids, "", inv[p].target)
       IN  /\ inv' = [inv EXCEPT ![p].log = Append(@, Call("delete", id, res)),
                                 ![p].err = ErrOf("DELETE record", res),
                                 ![p].del = IF res = "ok" THEN @ \cup {id} ELSE @,
                                 ![p].ids = nxt.ids,
                                 ![p].pc = nxt.pc]
           /\ records' = IF res = "ok" THEN records \ found ELSE records
           /\ gone' = IF res = "ok" THEN gone \cup found ELSE gone
           /\ pending' = IF res = "ok" THEN TRUE ELSE pending
  /\ UNCHANGED <<nextId, isDeployed, ninv, presented, auxVars>>

\* ---------------------------------------------------------------- getSubDomain alone

\* The subdomain computation as Present and CleanUp perform it (main.go 159-160).
ComputeSubDomain ==
  /\ sdOut = <<"unset">>
  /\ sdOut' = getSubDomain(UnFqdn(sdZone), sdFqdn)
  /\ UNCHANGED <<zoneVars, inv, ninv, presented, faulty, sdZone, sdFqdn>>

SubInit ==
  /\ records = {} /\ nextId = 1 /\ isDeployed = TRUE /\ pending = FALSE
  /\ inv = [p \in Procs |-> Idle] /\ ninv = 0 /\ gone = {}
  /\ presented = [sk \in SubDomains \X Keys |-> 0]
  /\ faulty = TRUE
  /\ sdZone \in StringsUpTo(MaxZoneLen)
  /\ sdFqdn \in StringsUpTo(MaxFqdnLen)
  /\ sdOut = <<"unset">>

SubNext == ComputeSubDomain

SubSpec == SubInit /\ [][SubNext]_vars

\* ---------------------------------------------------------------- specifications

Next ==
  \E p \in Procs :
    \/ Present(p)
    \/ CleanUp(p)
    \/ validateZone(p)
    \/ createRecord(p)
    \/ refreshRecords(p)
    \/ listRecords(p)
    \/ getRecord(p)
    \/ deleteRecord(p)

Spec == Init /\ [][Next]_vars

\* The remote services recover: from now on no call fails in transport.
Recover ==
  /\ faulty
  /\ faulty' = FALSE
  /\ UNCHANGED <<zoneVars, inv, ninv, presented, sdZone, sdFqdn, sdOut>>

\* One caller cleaning up, re-invoked by the controller for as long as CleanUp
\* returns an error, against remote services that eventually recover.
RetryNext ==
  \/ CleanUp("p1") /\ inv["p1"].pc = "idle"
  \/ RetryCleanUp("p1")
  \/ listRecords("p1")
  \/ getRecord("p1")
  \/ deleteRecord("p1")
  \/ refreshRecords("p1")
  \/ Recover

RetryFairness ==
  /\ WF_vars(RetryCleanUp("p1"))
  /\ WF_vars(listRecords("p1"))
  /\ WF_vars(getRecord("p1"))
  /\ WF_vars(deleteRecord("p1"))
  /\ WF_vars(refreshRecords("p1"))
  /\ WF_vars(Recover)

RetrySpec == Init /\ [][RetryNext]_vars /\ RetryFairness

\* ---------------------------------------------------------------- client construction alone

\* Configurations of every shape: each field empty or set, the secret
\* reference naming the stored secret, another secret or none, objects that
\* lack fields, an absent payload and bytes that do not decode.
ClientConfigs ==
  { ObjJSON([endpoint |-> e, applicationKey |-> ak, secretName |-> sn,
             secretKey |-> sk, consumerKey |-> ck])
      : e \in {"", "ovh-eu"}, ak \in {"", "ak"},
        sn \in {"", "ovh-credentials", "absent"},
        sk \in {"applicationSecret", "other"}, ck \in {"", "ck"} }
  \cup { ObjJSON([endpoint |-> "ovh-eu"]),
         ObjJSON([endpoint |-> "ovh-eu", applicationKey |-> "ak",
                  secretName |-> "ovh-credentials", consumerKey |-> "ck"]),
         NilJSON, BadJSON }

\* Requests with any of these configurations, from the namespace that holds
\* the secret or from another one, with ambient credentials allowed or not.
ClientRequests ==
  { [ResolvedFQDN |-> f, ResolvedZone |-> ResolvedZone, Key |-> k,
     ResourceNamespace |-> ns, Config |-> c, AllowAmbientCredentials |-> amb]
    : f \in Fqdns, k \in Keys, ns \in {"ns", "other"}, c \in ClientConfigs,
      amb \in BOOLEAN }

\* One Present or CleanUp of any such request, run to its return.
ClientPresent ==
  /\ inv["p1"].pc = "idle"
  /\ ninv' = ninv + 1
  /\ \E ch \in ClientRequests : Invoke("p1", "Present", "validateZone", ch, FALSE)
  /\ UNCHANGED <<zoneVars, presented, auxVars>>

ClientCleanUp ==
  /\ inv["p1"].pc = "idle"
  /\ ninv' = ninv + 1
  /\ \E ch \in ClientRequests : Invoke("p1", "CleanUp", "listRecords", ch, FALSE)
  /\ UNCHANGED <<zoneVars, presented, auxVars>>

ClientNext ==
  \/ ClientPresent
  \/ ClientCleanUp
  \/ validateZone("p1")
  \/ createRecord("p1")
  \/ refreshRecords("p1")
  \/ listRecords("p1")
  \/ getRecord("p1")
  \/ deleteRecord("p1")

ClientSpec == Init /\ [][ClientNext]_vars

\* ---------------------------------------------------------------- properties

Range(f) == {f[i] : i \in DOMAIN f}

\* The TXT records at a subdomain whose target is key.
Matching(rs, subDomain, key) ==
  {r \in rs : r.fieldType = "TXT" /\ r.subDomain = subDomain /\ r.target = key}

InZone(id) == \E r \in records : r.id = id

Done(p) == inv[p].pc = "done"
Returned(p, op) == inv[p].op = op /\ Done(p)

\* The positions of p's log that hold call c.
CallsOf(p, c) == {i \in 1..Len(inv[p].log) : inv[p].log[i].call = c}
AllCallsOk(p) == \A i \in 1..Len(inv[p].log) : inv[p].log[i].res = "ok"
NoTransportError(p) == \A i \in 1..Len(inv[p].log) : inv[p].log[i].res # "error"

\* The calls p issued against the zone API, in order.
ZoneCalls(p) == SelectSeq(inv[p].log, LAMBDA c : c.call # "secret")

IsPrefix(s, t) == Len(s) <= Len(t) /\ SubSeq(t, 1, Len(s)) = s

\* C1: a CleanUp deletes only records at its subdomain whose target equals its
\* key, whether it returns nil or an error; and when no other invocation
\* overlaps it, every record it listed is either still in the zone or was
\* deleted by it (so listed records with another target are still there).
C1_OnlyKeyDeleted ==
  \A p \in Procs :
    inv[p].op = "CleanUp" =>
      /\ \A id \in inv[p].del :
           \E r \in gone : /\ r.id = id
                           /\ r.fieldType = "TXT"
                           /\ r.subDomain = inv[p].subDomain
                           /\ r.target = inv[p].target
      /\ inv[p].peers = {} =>
           \A id \in Range(inv[p].listed) : InZone(id) \/ id \in inv[p].del

\* A CleanUp has returned after deleting a record while a listed record with
\* another target is still in the zone.
C1_Witness ==
  \E p \in Procs :
    /\ Returned(p, "CleanUp")
    /\ inv[p].del # {}
    /\ \E r \in records : r.id \in Range(inv[p].listed) /\ r.target # inv[p].target

\* C2: a CleanUp that no other invocation overlaps and whose remote calls all
\* succeed returns nil and leaves no TXT record with its subdomain and key
\* (so also right after a Present of the same request); when its list is empty
\* it issues the list and the refresh only and deletes nothing.
C2_PresentThenCleanUp ==
  \A p \in Procs :
    (Returned(p, "CleanUp") /\ inv[p].client /\ inv[p].peers = {} /\ AllCallsOk(p)) =>
      /\ inv[p].err = NoErr
      /\ Matching(records, inv[p].subDomain, inv[p].target) = {}
      /\ inv[p].listed = <<>> =>
           /\ inv[p].del = {}
           /\ [i \in 1..Len(ZoneCalls(p)) |-> ZoneCalls(p)[i].call] = <<"list", "refresh">>

\* A CleanUp has returned nil after deleting the record of an earlier
\* successful Present of the same subdomain and key.
C2_Witness ==
  \E p \in Procs :
    /\ Returned(p, "CleanUp") /\ inv[p].err = NoErr /\ inv[p].peers = {}
    /\ presented[<<inv[p].subDomain, inv[p].target>>] = 1
    /\ \E id \in inv[p].del : \A z \in InitialZones : \A r \in z : r.id # id
    /\ Matching(records, inv[p].subDomain, inv[p].target) = {}

\* C3: a CleanUp for key A that only invocations for other keys overlap, and
\* whose remote calls never fail in transport, returns nil and has removed
\* every record with target A that it listed.
C3_IndependentCleanUp ==
  \A p \in Procs :
    (Returned(p, "CleanUp") /\ inv[p].client /\ NoTransportError(p)
       /\ inv[p].target \notin inv[p].peers) =>
      /\ inv[p].err = NoErr
      /\ \A r \in Matching(records, inv[p].subDomain, inv[p].target) :
           r.id \notin Range(inv[p].listed)

\* C4: once the status GET of a Present reports the zone as not deployed, the
\* Present has returned the zone-not-deployed error, that GET is its last
\* call, it issued no create and no refresh POST and changed no record.
C4_NotDeployedShortCircuits ==
  \A p \in Procs :
    \A i \in CallsOf(p, "status") :
      inv[p].log[i].res = "notDeployed" =>
        /\ Done(p)
        /\ inv[p].err = "OVH zone not deployed"
        /\ i = Len(inv[p].log)
        /\ CallsOf(p, "create") = {} /\ CallsOf(p, "refresh") = {}
        /\ inv[p].created = 0 /\ inv[p].del = {}

\* A Present has returned because the zone is not deployed.
C4_Witness ==
  \E p \in Procs :
    /\ Returned(p, "Present")
    /\ CallsOf(p, "status") # {}
    /\ inv[p].log[Len(inv[p].log)].res = "notDeployed"

\* C5 as stated: every record mutation (create POST or DELETE) of an
\* invocation follows a status GET of the same invocation that reported the
\* zone as deployed.
C5_StatusGatesBoth ==
  \A p \in Procs :
    \A i \in CallsOf(p, "create") \cup CallsOf(p, "delete") :
      \E j \in CallsOf(p, "status") : j < i /\ inv[p].log[j].res = "ok"

\* C5 amended: the create POST of a Present follows a status GET of the same
\* invocation that reported the zone as deployed; a CleanUp issues no status
\* GET at all; in both operations the refresh POST is the last call, after
\* every record mutation.
C5_StatusGatesPresent ==
  \A p \in Procs :
    /\ \A i \in CallsOf(p, "create") :
         /\ inv[p].op = "Present"
         /\ \E j \in CallsOf(p, "status") : j < i /\ inv[p].log[j].res = "ok"
    /\ inv[p].op = "CleanUp" => CallsOf(p, "status") = {}
    /\ \A i \in CallsOf(p, "delete") : inv[p].op = "CleanUp"
    /\ \A i \in CallsOf(p, "refresh") : i = Len(inv[p].log) /\ Done(p)

\* A CleanUp has deleted a record and refreshed the zone, and returned nil,
\* while the zone is not deployed.
C5_Witness ==
  \E p \in Procs :
    /\ Returned(p, "CleanUp") /\ inv[p].err = NoErr /\ inv[p].del # {}
    /\ CallsOf(p, "refresh") # {}
    /\ ~isDeployed

\* C6: the zone calls of a Present are a prefix of status GET, create POST,
\* refresh POST; every call but the last succeeded; a failed call is the last
\* one and Present has returned its error; Present never deletes, so when the
\* refresh fails after the create the created record stays in the zone (unless
\* a CleanUp of another caller took it).
C6_PresentOrder ==
  \A p \in Procs :
    inv[p].op = "Present" =>
      LET calls == ZoneCalls(p)
          n     == Len(calls)
      IN  /\ IsPrefix([i \in 1..n |-> calls[i].call], <<"status", "create", "refresh">>)
          /\ \A i \in 1..(n - 1) : calls[i].res = "ok"
          /\ (n > 0 /\ calls[n].res # "ok") => (Done(p) /\ inv[p].err # NoErr)
          /\ (Done(p) /\ inv[p].err = NoErr) => (n = 3 /\ calls[n].res = "ok")
          /\ inv[p].del = {}
          /\ (n = 3 /\ calls[n].res # "ok") =>
               /\ inv[p].created # 0
               /\ InZone(inv[p].created) \/ \E r \in gone : r.id = inv[p].created
               /\ inv[p].peers = {} => InZone(inv[p].created)

\* A Present has returned the error of its refresh POST and the record it
\* created is in the zone.
C6_Witness ==
  \E p \in Procs :
    /\ Returned(p, "Present") /\ inv[p].err = "OVH API call failed: POST refresh"
    /\ Matching(records, inv[p].subDomain, inv[p].target) # {}
    /\ InZone(inv[p].created)

\* C7: a failed record GET or DELETE of a CleanUp is its last call: the CleanUp
\* has returned an error and issued no refresh; the records it deleted before
\* are gone, and when no other invocation overlaps it the records listed
\* after the failing one are still in the zone.
C7_CleanUpAborts ==
  \A p \in Procs :
    \A i \in CallsOf(p, "get") \cup CallsOf(p, "delete") :
      inv[p].log[i].res # "ok" =>
        /\ inv[p].op = "CleanUp" /\ Done(p) /\ inv[p].err # NoErr
        /\ i = Len(inv[p].log)
        /\ CallsOf(p, "refresh") = {}
        /\ inv[p].ids # <<>> /\ Head(inv[p].ids) = inv[p].log[i].id
        /\ \A id \in inv[p].del : ~InZone(id)
        /\ inv[p].peers = {} => \A id \in Range(inv[p].ids) : InZone(id)

\* A CleanUp has aborted after a deletion, and a record with its key that it
\* had listed is still in the zone.
C7_Witness ==
  \E p \in Procs :
    /\ Returned(p, "CleanUp") /\ inv[p].err # NoErr /\ inv[p].del # {}
    /\ inv[p].ids # <<>>
    /\ \E r \in Matching(records, inv[p].subDomain, inv[p].target) :
         r.id \in Range(Tail(inv[p].ids))

\* C8: a Present that returned nil issued exactly one create POST, which
\* added a record under a fresh identifier, whatever the zone held; so the
\* records ever held with a subdomain and key are at least as many as the
\* Presents of them that returned nil; and a CleanUp that nothing overlaps and
\* that returns nil leaves none of them.
C8_ReplaysThenCleanUp ==
  /\ \A p \in Procs :
       (Returned(p, "Present") /\ inv[p].err = NoErr) =>
         /\ Cardinality(CallsOf(p, "create")) = 1
         /\ inv[p].created # 0
         /\ \E r \in records \cup gone :
              r = ZoneRecord(inv[p].created, "TXT", inv[p].subDomain, inv[p].target, 60)
  /\ \A sk \in DOMAIN presented :
       Cardinality(Matching(records \cup gone, sk[1], sk[2])) >= presented[sk]
  /\ \A p \in Procs :
       (Returned(p, "CleanUp") /\ inv[p].err = NoErr /\ inv[p].peers = {}
          /\ presented[<<inv[p].subDomain, inv[p].target>>] >= 2) =>
         Matching(records, inv[p].subDomain, inv[p].target) = {}

\* After two Presents of the same request returned nil, one CleanUp has
\* deleted both records and none is left.
C8_Witness ==
  \E p \in Procs :
    /\ Returned(p, "CleanUp") /\ inv[p].err = NoErr /\ inv[p].peers = {}
    /\ presented[<<inv[p].subDomain, inv[p].target>>] = 2
    /\ Cardinality({id \in inv[p].del : \A z \in InitialZones : \A r \in z : r.id # id}) = 2
    /\ Matching(records, inv[p].subDomain, inv[p].target) = {}

\* C9: under RetrySpec. A CleanUp that returns nil leaves no record with its
\* subdomain and key, its last call is the refresh, and no edit is left
\* unpublished; and a CleanUp that aborted on a remote call is followed, the
\* controller retrying and the calls eventually succeeding, by a CleanUp of
\* the same request that returns nil with the zone so cleaned and refreshed.
Aborted(p) == Returned(p, "CleanUp") /\ inv[p].client /\ inv[p].err # NoErr

Cleaned(p) ==
  /\ Returned(p, "CleanUp") /\ inv[p].err = NoErr
  /\ Matching(records, inv[p].subDomain, inv[p].target) = {}
  /\ ~pending

RetrySafe ==
  \A p \in Procs :
    (Returned(p, "CleanUp") /\ inv[p].err = NoErr) =>
      /\ Cleaned(p)
      /\ inv[p].log[Len(inv[p].log)] = Call("refresh", 0, "ok")
      /\ \A id \in Range(inv[p].listed) : InZone(id) \/ id \in inv[p].del

C9_RetryConverges ==
  /\ []RetrySafe
  /\ \A p \in Procs : Aborted(p) ~> Cleaned(p)

\* A retry of a CleanUp that had aborted after a deletion has deleted the
\* remaining record, refreshed and returned nil.
C9_Witness ==
  \E p \in Procs :
    /\ inv[p].partial /\ Cleaned(p) /\ inv[p].del # {}

\* C10: under SubSpec. For well-formed names, when the fqdn (without its root
\* terminator) ends with "." followed by the zone (without its root
\* terminator), the computed subdomain is the fqdn prefix before that suffix.
WellFormed(name) ==
  /\ name # <<>> /\ name[1] # "."
  /\ \A i \in 1..(Len(name) - 1) : ~(name[i] = "." /\ name[i + 1] = ".")

HasSuffix(s, suffix) ==
  Len(suffix) <= Len(s) /\ SubSeq(s, Len(s) - Len(suffix) + 1, Len(s)) = suffix

C10_SuffixStripped ==
  (sdOut # <<"unset">> /\ WellFormed(sdZone) /\ WellFormed(sdFqdn)) =>
    LET fqdn   == UnFqdn(sdFqdn)
        suffix == <<".">> \o UnFqdn(sdZone)
    IN  HasSuffix(fqdn, suffix) => sdOut = SubSeq(fqdn, 1, Len(fqdn) - Len(suffix))

\* C11: under SubSpec. For well-formed names, when the fqdn (without its root
\* terminator) does not end with "." followed by the zone (without its root
\* terminator), the computed subdomain is the fqdn without its root
\* terminator.
C11_NoCommonSuffix ==
  (sdOut # <<"unset">> /\ WellFormed(sdZone) /\ WellFormed(sdFqdn)) =>
    LET fqdn   == UnFqdn(sdFqdn)
        suffix == <<".">> \o UnFqdn(sdZone)
    IN  ~HasSuffix(fqdn, suffix) => sdOut = fqdn

\* The value a request's configuration gives a field: the empty string when
\* the payload is absent or the object lacks the field.
ConfigField(ch, f) ==
  IF ch.Config.kind = "obj" /\ f \in DOMAIN ch.Config.obj THEN ch.Config.obj[f] ELSE ""

\* The fields validation requires, in the order it reports them, and the
\* error that names each.
RequiredFields == <<"endpoint", "applicationKey", "secretName", "consumerKey">>
MissingFieldError ==
  [endpoint       |-> "no endpoint provided in OVH config",
   applicationKey |-> "no application key provided in OVH config",
   secretName     |-> "no application secret provided in OVH config",
   consumerKey    |-> "no consumer key provided in OVH config"]
ValidationErrors == {MissingFieldError[f] : f \in DOMAIN MissingFieldError}

\* The positions of the required fields that are empty in the request.
MissingFields(ch) == {i \in 1..Len(RequiredFields) : ConfigField(ch, RequiredFields[i]) = ""}

\* C12: under ClientSpec. When ambient credentials are not allowed and the
\* configuration decodes, validation passes (the invocation does not return a
\* validation error) exactly when endpoint, application key, application
\* secret reference name and consumer key are all non-empty; otherwise the
\* invocation returns the error that names the first empty field in that
\* order.
C12_FirstMissingField ==
  \A p \in Procs :
    (inv[p].op # "none" /\ ~inv[p].ch.AllowAmbientCredentials
       /\ inv[p].ch.Config.kind # "bad") =>
      LET missing == MissingFields(inv[p].ch)
      IN  IF missing = {}
          THEN inv[p].err \notin ValidationErrors
          ELSE /\ Done(p)
               /\ inv[p].err = MissingFieldError[RequiredFields[Min(missing)]]

\* A request without ambient credentials whose configuration sets only the
\* endpoint has returned the error naming the application key.
C12_Witness ==
  \E p \in Procs :
    /\ Done(p)
    /\ ~inv[p].ch.AllowAmbientCredentials
    /\ inv[p].ch.Config = ObjJSON([endpoint |-> "ovh-eu"])
    /\ inv[p].err = "no application key provided in OVH config"

\* The errors of the credential store for a request.
SecretErrors(ch) ==
  {StoreReadFailed, "secret not found",
   KeyNotFound(ConfigField(ch, "secretKey"), ch.ResourceNamespace, ConfigField(ch, "secretName"))}

\* C13: under ClientSpec. The client is built by decoding, validating,
\* resolving the secret and constructing, in that order, stopping at the first
\* failure: a configuration that does not decode returns the decode error
\* whatever else is wrong; one that decodes and fails validation returns the
\* validation error; in both cases the credential store is not read. A failed
\* secret resolution returns the store's error, not the constructor's. And
\* when the client was not built, Present or CleanUp has returned an error
\* without any call to the zone API and without any change to the zone.
C13_ClientBuildOrder ==
  \A p \in Procs :
    inv[p].op # "none" =>
      LET ch          == inv[p].ch
          decodeFails == ch.Config.kind = "bad"
          validFails  == ~ch.AllowAmbientCredentials /\ MissingFields(ch) # {}
          secretCalls == CallsOf(p, "secret")
      IN  /\ decodeFails => inv[p].err = "error decoding OVH config" /\ inv[p].log = <<>>
          /\ (~decodeFails /\ validFails) =>
               inv[p].err \in ValidationErrors /\ inv[p].log = <<>>
          /\ (~decodeFails /\ ~validFails /\ ConfigField(ch, "secretName") # "") =>
               secretCalls = {1}
          /\ (\E i \in secretCalls : inv[p].log[i].res = "error") =>
               inv[p].err \in SecretErrors(ch) /\ Len(inv[p].log) = 1
          /\ inv[p].err = "ovh.NewClient failed" =>
               ~decodeFails /\ ~validFails /\ AllCallsOk(p)
          /\ ~inv[p].client =>
               /\ Done(p) /\ inv[p].err # NoErr
               /\ ZoneCalls(p) = <<>>
               /\ inv[p].created = 0 /\ inv[p].del = {}
               /\ records \in InitialZones /\ gone = {} /\ ~pending
          /\ inv[p].client => ~decodeFails /\ ~validFails /\ inv[p].api.built

\* A CleanUp, against a zone that holds matching records, of a request whose
\* configuration lacks the consumer key and names a secret that does not exist
\* has returned the validation error without reading the store.
C13_Witness ==
  \E p \in Procs :
    /\ Returned(p, "CleanUp")
    /\ records # {}
    /\ ~inv[p].ch.AllowAmbientCredentials
    /\ ConfigField(inv[p].ch, "secretName") = "absent"
    /\ ConfigField(inv[p].ch, "endpoint") # ""
    /\ ConfigField(inv[p].ch, "applicationKey") # ""
    /\ inv[p].err = "no consumer key provided in OVH config"
    /\ inv[p].log = <<>>

\* The invocation got as far as resolving the secret: its configuration
\* decoded and passed validation.
ReachedSecret(p) ==
  /\ inv[p].op # "none"
  /\ inv[p].ch.Config.kind # "bad"
  /\ inv[p].ch.AllowAmbientCredentials \/ MissingFields(inv[p].ch) = {}

\* The three outcomes that what the store holds decides: no such secret in
\* the request's namespace gives the store's not-found error; a secret without
\* the referenced field gives another error, which no other (key, namespace,
\* name) gives; otherwise the store is read without error and the client is
\* constructed with the field's value.
HeldOutcome(p) ==
      LET ch    == inv[p].ch
          name  == ConfigField(ch, "secretName")
          key   == ConfigField(ch, "secretKey")
          found == {s \in SecretStore : s.namespace = ch.ResourceNamespace /\ s.name = name}
      IN  IF found = {}
          THEN /\ inv[p].err = "secret not found"
               /\ inv[p].log = <<Call("secret", 0, "error")>>
               /\ ~inv[p].client
          ELSE IF \A s \in found : key \notin DOMAIN s.data
          THEN /\ inv[p].err = KeyNotFound(key, ch.ResourceNamespace, name)
               /\ inv[p].err # "secret not found"
               /\ \A q \in ClientRequests :
                    <<ConfigField(q, "secretKey"), q.ResourceNamespace, ConfigField(q, "secretName")>>
                        # <<key, ch.ResourceNamespace, name>>
                    => KeyNotFound(ConfigField(q, "secretKey"), q.ResourceNamespace,
                                   ConfigField(q, "secretName")) # inv[p].err
               /\ inv[p].log = <<Call("secret", 0, "error")>>
               /\ ~inv[p].client
          ELSE /\ inv[p].log # <<>> /\ inv[p].log[1] = Call("secret", 0, "ok")
               /\ inv[p].err \notin SecretErrors(ch)
               /\ inv[p].client =>
                    \E s \in found : inv[p].api.applicationSecret = s.data[key]

\* The store's Get did not answer: its error is returned as it is, the read
\* is the invocation's only call and no client is built.
ReadFailed(p) ==
  /\ inv[p].err = StoreReadFailed
  /\ inv[p].log = <<Call("secret", 0, "error")>>
  /\ Done(p) /\ ~inv[p].client

\* C14 as stated, under ClientSpec: resolving a secret reference with a
\* non-empty name has exactly the three outcomes that what the store holds
\* decides.
C14_SecretOutcomes ==
  \A p \in Procs :
    (ReachedSecret(p) /\ ConfigField(inv[p].ch, "secretName") # "") => HeldOutcome(p)

\* C14 amended, under ClientSpec: resolving a secret reference with a
\* non-empty name has exactly four outcomes: the store's Get fails for another
\* reason than the secret's absence and its error is returned as it is,
\* whatever the store holds; or one of the three outcomes that what the store
\* holds decides. The four are told apart by the error returned.
C14_SecretOutcomesOrReadError ==
  \A p \in Procs :
    (ReachedSecret(p) /\ ConfigField(inv[p].ch, "secretName") # "") =>
      /\ ReadFailed(p) \/ HeldOutcome(p)
      /\ ~(ReadFailed(p) /\ HeldOutcome(p))
      /\ StoreReadFailed \notin
           {NoErr, "secret not found",
            KeyNotFound(ConfigField(inv[p].ch, "secretKey"), inv[p].ch.ResourceNamespace,
                        ConfigField(inv[p].ch, "secretName"))}
      /\ inv[p].err = StoreReadFailed => ReadFailed(p)

\* A request naming the stored secret and a field it does not hold has
\* returned the error that names the field, the namespace and the secret.
C14_Witness ==
  \E p \in Procs :
    /\ Done(p)
    /\ ConfigField(inv[p].ch, "secretName") = "ovh-credentials"
    /\ ConfigField(inv[p].ch, "secretKey") = "other"
    /\ inv[p].ch.ResourceNamespace = "ns"
    /\ inv[p].err = "key not found \"other\" in secret 'ns/ovh-credentials'"

\* No call of the invocation was repeated: the credential store, the status,
\* the list, the create and the refresh were each called at most once, and no
\* identifier was fetched twice or deleted twice.
NoCallRepeated(p) ==
  /\ \A c \in {"secret", "status", "list", "create", "refresh"} :
       Cardinality(CallsOf(p, c)) <= 1
  /\ \A c \in {"get", "delete"} :
       \A i, j \in CallsOf(p, c) : inv[p].log[i].id = inv[p].log[j].id => i = j

\* C15 as stated: no call of an invocation is repeated, and an invocation that
\* returned has returned nil exactly when every call it issued succeeded (a
\* status GET that reports the zone as not deployed does not succeed).
C15_SuccessIffCallsOk ==
  \A p \in Procs :
    /\ NoCallRepeated(p)
    /\ (Done(p) /\ inv[p].op # "none") => (inv[p].err = NoErr <=> AllCallsOk(p))

\* C15 amended: no call of an invocation is repeated; an invocation that
\* returned has returned nil exactly when its client was built (the
\* configuration decoded and passed validation, and ovh.NewClient succeeded)
\* and every call it issued succeeded; and the first call that did not succeed
\* is the last call of the invocation.
C15_SuccessIffBuiltAndCallsOk ==
  \A p \in Procs :
    /\ NoCallRepeated(p)
    /\ (Done(p) /\ inv[p].op # "none") =>
         (inv[p].err = NoErr <=> (inv[p].client /\ AllCallsOk(p)))
    /\ \A i \in 1..Len(inv[p].log) :
         inv[p].log[i].res # "ok" => i = Len(inv[p].log) /\ Done(p) /\ inv[p].err # NoErr

\* A CleanUp has returned an error right after a failed DELETE that followed
\* a successful deletion, and another invocation has returned an error
\* without a failed call because its client could not be built.
C15_Witness ==
  \E p, q \in Procs :
    /\ Returned(p, "CleanUp") /\ inv[p].err # NoErr /\ inv[p].del # {}
    /\ inv[p].log[Len(inv[p].log)].call = "delete"
    /\ inv[p].log[Len(inv[p].log)].res = "error"
    /\ Done(q) /\ inv[q].op # "none" /\ ~inv[q].client
    /\ AllCallsOk(q) /\ inv[q].err # NoErr

\* C16: under ClientSpec. With ambient credentials allowed no configuration
\* that decodes, the absent payload included, returns a validation error; and
\* when the secret reference has an empty name the credential store is not
\* read, no store error is returned, and the client, when ovh.NewClient
\* accepts them, is constructed from the configuration's fields as they are,
\* with the empty string as application secret.
C16_AmbientSkipsValidation ==
  \A p \in Procs :
    (inv[p].op # "none" /\ inv[p].ch.AllowAmbientCredentials
       /\ inv[p].ch.Config.kind # "bad") =>
      /\ inv[p].err \notin ValidationErrors
      /\ ConfigField(inv[p].ch, "secretName") = "" =>
           /\ CallsOf(p, "secret") = {}
           /\ inv[p].err \notin SecretErrors(inv[p].ch)
           /\ inv[p].err \in {NoErr, "ovh.NewClient failed"} \/ inv[p].client
           /\ inv[p].client =>
                inv[p].api = [endpoint          |-> ConfigField(inv[p].ch, "endpoint"),
                              applicationKey    |-> ConfigField(inv[p].ch, "applicationKey"),
                              applicationSecret |-> "",
                              consumerKey       |-> ConfigField(inv[p].ch, "consumerKey"),
                              built             |-> TRUE]

\* A Present with ambient credentials and no configuration payload has
\* returned nil with a client built from four empty strings, without a read
\* of the credential store.
C16_Witness ==
  \E p \in Procs :
    /\ Returned(p, "Present") /\ inv[p].err = NoErr
    /\ inv[p].ch.AllowAmbientCredentials
    /\ inv[p].ch.Config = NilJSON
    /\ inv[p].api = [NoClient EXCEPT !.built = TRUE]
    /\ CallsOf(p, "secret") = {}
    /\ InZone(inv[p].created)

\* C17: a CleanUp that returned nil issued exactly one refresh POST, as its
\* last call, after every record GET and DELETE, however many records it
\* deleted; a CleanUp that returned an error issued no refresh, unless the
\* refresh is its last call and the call that failed.
C17_RefreshOnce ==
  \A p \in Procs :
    Returned(p, "CleanUp") =>
      LET n       == Len(inv[p].log)
          refresh == CallsOf(p, "refresh")
      IN  IF inv[p].err = NoErr
          THEN /\ refresh = {n}
               /\ inv[p].log[n].res = "ok"
               /\ \A i \in CallsOf(p, "get") \cup CallsOf(p, "delete") \cup CallsOf(p, "list") : i < n
          ELSE \/ refresh = {}
               \/ /\ refresh = {n}
                  /\ inv[p].log[n].res = "error"
                  /\ inv[p].err = ErrOf("POST refresh", "error")

\* Two CleanUps have returned nil after one refresh each: one deleted
\* nothing, the other deleted two records.
C17_Witness ==
  \E p, q \in Procs :
    /\ Returned(p, "CleanUp") /\ inv[p].err = NoErr /\ inv[p].del = {}
    /\ Cardinality(CallsOf(p, "refresh")) = 1
    /\ Returned(q, "CleanUp") /\ inv[q].err = NoErr /\ Cardinality(inv[q].del) = 2
    /\ Cardinality(CallsOf(q, "refresh")) = 1

\* The identifiers of p's calls c, in the order of the calls.
IdsOf(p, c) ==
  LET calls == SelectSeq(inv[p].log, LAMBDA x : x.call = c)
  IN  [i \in 1..Len(calls) |-> calls[i].id]

\* C18: a CleanUp acts on the one list it fetched at its start: it issued a
\* single list GET, the identifiers it fetched are, in order, a prefix of that
\* list, and it deleted only identifiers it fetched; so a record that is not
\* in the list, such as one a concurrent Present created after the list GET,
\* is neither fetched nor deleted by it.
C18_SnapshotList ==
  \A p \in Procs :
    inv[p].op = "CleanUp" =>
      /\ Cardinality(CallsOf(p, "list")) <= 1
      /\ IsPrefix(IdsOf(p, "get"), inv[p].listed)
      /\ Range(IdsOf(p, "delete")) \subseteq Range(IdsOf(p, "get"))
      /\ inv[p].del \subseteq Range(inv[p].listed)
      /\ \A q \in Procs :
           (inv[q].op = "Present" /\ inv[q].created # 0
              /\ inv[q].created \notin Range(inv[p].listed)) =>
             /\ inv[q].created \notin Range(IdsOf(p, "get")) \cup Range(IdsOf(p, "delete"))
             /\ inv[q].created \notin inv[p].del

\* A Present and a CleanUp of the same subdomain and key overlapped and both
\* returned nil; the CleanUp deleted the records it had listed, and the record
\* the Present created, which is not in that list, is still in the zone.
\* The two overlapped: the Present's peers hold the CleanUp's key, so the
\* CleanUp was in progress when the Present started or started after it; and
\* the created record, still in the zone, is missing from the CleanUp's list,
\* so the create followed the list GET.
C18_Witness ==
  \E p, q \in Procs :
    /\ Returned(p, "CleanUp") /\ inv[p].err = NoErr
    /\ Returned(q, "Present") /\ inv[q].err = NoErr
    /\ inv[p].subDomain = inv[q].subDomain /\ inv[p].target = inv[q].target
    /\ inv[q].target \in inv[p].peers /\ inv[p].target \in inv[q].peers
    /\ inv[p].del # {} /\ inv[p].del = Range(inv[p].listed)
    /\ inv[q].created \notin Range(inv[p].listed)
    /\ \E r \in Matching(records, inv[p].subDomain, inv[p].target) : r.id = inv[q].created

\* What an invocation has done so far stays within its operation: a Present
\* issued no DELETE and deleted nothing, and issued at most one create POST; a
\* CleanUp issued no create POST and created nothing.
FrameSoFar ==
  \A p \in Procs :
    /\ inv[p].op = "Present" =>
         /\ CallsOf(p, "delete") = {} /\ inv[p].del = {}
         /\ Cardinality(CallsOf(p, "create")) <= 1
    /\ inv[p].op = "CleanUp" =>
         CallsOf(p, "create") = {} /\ inv[p].created = 0

\* What one step may change in the zone: it removes only a TXT record at the
\* subdomain of a CleanUp that listed its identifier and deletes it in this
\* step; it adds only one record {TXT, subdomain, key, ttl 60} under a fresh
\* identifier, by the create of a Present, and then removes none.
FrameStep ==
  /\ \A r \in records \ records' :
       /\ r.fieldType = "TXT"
       /\ \E p \in Procs :
            /\ inv[p].op = "CleanUp" /\ inv[p].pc = "deleteRecord"
            /\ r.subDomain = inv[p].subDomain
            /\ r.id \in Range(inv[p].listed)
            /\ inv'[p].del = inv[p].del \cup {r.id}
  /\ records' \ records # {} =>
       /\ records \subseteq records'
       /\ \E p \in Procs :
            /\ inv[p].op = "Present" /\ inv[p].pc = "createRecord" /\ inv[p].created = 0
            /\ ~InZone(inv'[p].created)
            /\ \A r \in gone : r.id # inv'[p].created
            /\ records' \ records =
                 {ZoneRecord(inv'[p].created, "TXT", inv[p].subDomain, inv[p].ch.Key, 60)}

\* C19: a Present never deletes and adds at most one record, {TXT, its
\* subdomain, its key, ttl 60}, leaving every record the zone held unchanged;
\* a CleanUp never creates and deletes only identifiers of its own list, which
\* are TXT records at its subdomain; so records of another type or at another
\* subdomain are never deleted.
C19_Frame == []FrameSoFar /\ [][FrameStep]_vars

\* A Present has created its record and a CleanUp has deleted the two records
\* it listed, while the CNAME record at the same subdomain and the TXT record
\* at another subdomain, which have the CleanUp's key as target, are in the
\* zone as they were.
C19_Witness ==
  \E p, q \in Procs :
    /\ Returned(p, "CleanUp") /\ Cardinality(inv[p].del) = 2
    /\ Returned(q, "Present") /\ InZone(inv[q].created)
    /\ ZoneRecord(3, "CNAME", inv[p].subDomain, inv[p].target, 3600) \in records
    /\ ZoneRecord(4, "TXT", <<"y">>, inv[p].target, 60) \in records

\* The step an invocation in progress takes next.
StepOf(p) ==
  \/ validateZone(p)
  \/ createRecord(p)
  \/ refreshRecords(p)
  \/ listRecords(p)
  \/ getRecord(p)
  \/ deleteRecord(p)

\* The calls of an invocation are bounded: a Present issued at most one status
\* GET, one create POST and one refresh POST, and nothing else against the
\* zone; a CleanUp issued one list GET (once past it), then for the listed
\* identifiers, in the returned order and each at most once, at most one GET
\* and one DELETE, and at most one refresh POST: at most 2n + 2 calls for n
\* listed identifiers. An invocation in progress can always take its next step.
CallBounds ==
  \A p \in Procs :
    /\ inv[p].op = "Present" =>
         /\ \A c \in {"status", "create", "refresh"} : Cardinality(CallsOf(p, c)) <= 1
         /\ \A c \in {"list", "get", "delete"} : CallsOf(p, c) = {}
         /\ Len(ZoneCalls(p)) <= 3
    /\ inv[p].op = "CleanUp" =>
         LET n == Len(inv[p].listed)
         IN  /\ \A c \in {"status", "create"} : CallsOf(p, c) = {}
             /\ Cardinality(CallsOf(p, "list")) =
                  IF inv[p].client /\ inv[p].pc # "listRecords" THEN 1 ELSE 0
             /\ Cardinality(CallsOf(p, "refresh")) <= 1
             /\ IsPrefix(IdsOf(p, "get"), inv[p].listed)
             /\ \A i, j \in 1..n : inv[p].listed[i] = inv[p].listed[j] => i = j
             /\ \A i \in CallsOf(p, "delete") :
                  /\ i > 1 /\ inv[p].log[i - 1] = Call("get", inv[p].log[i].id, "ok")
             /\ Len(ZoneCalls(p)) <= 2 * n + 2
    /\ Active(p) => ENABLED StepOf(p)

\* Every step of an invocation in progress issues one more call.
OneCallPerStep ==
  \A p \in Procs :
    (Active(p) /\ <<inv[p].pc, inv[p].ids, inv[p].log>>' # <<inv[p].pc, inv[p].ids, inv[p].log>>) =>
      /\ Len(inv'[p].log) = Len(inv[p].log) + 1
      /\ IsPrefix(inv[p].log, inv'[p].log)

\* C20: every invocation terminates within a bounded number of calls: each
\* step of an invocation in progress adds one call, the next step is always
\* possible, and the calls are bounded as CallBounds says.
C20_BoundedCalls == []CallBounds /\ [][OneCallPerStep]_vars

\* A CleanUp whose list held two identifiers has returned after the most
\* calls it can issue: the list, a GET and a DELETE for each identifier in the
\* returned order, and the refresh; and a Present has returned after its three.
C20_Witness ==
  \E p, q \in Procs :
    /\ Returned(p, "CleanUp") /\ Len(inv[p].listed) = 2
    /\ Len(ZoneCalls(p)) = 6
    /\ IdsOf(p, "get") = inv[p].listed /\ IdsOf(p, "delete") = inv[p].listed
    /\ Returned(q, "Present") /\ Len(ZoneCalls(q)) = 3

====
